---- MODULE Spec2Model ----
(***************************************************************************)
(* Model of the print server of index.js (the variant with spool           *)
(* monitoring and webhooks, lines 358-769): the PrintMonitor polling        *)
(* script and its stdout handler, the 'add' / 'remove' listeners that       *)
(* correlate spool jobs with registrations in activePrintJobs, sendWebhook, *)
(* ensurePdf and the per-file loop of POST /print.  Of the variant of       *)
(* lines 1-356 it models parsePageRange and one file of POST /print with    *)
(* its mono/color split.                                                    *)
(*                                                                         *)
(* JavaScript strings that the code searches or concatenates (file names,  *)
(* document names, map keys, the monitor's output stream) are sequences of *)
(* one-character strings.  Opaque strings (ids, urls, messages) are TLA+   *)
(* strings.                                                                *)
(***************************************************************************)
EXTENDS Integers, Sequences, FiniteSets, TLC

(***************************************************************************)
(* Bounds of the model.                                                    *)
(***************************************************************************)
\* uploads accepted over the whole run (over all POST /print requests)
MaxUploads == 2
\* spool job ids the OS hands out: 1..MaxJobId
MaxJobId == 2
\* POST /print requests handled
MaxRequests == 1
\* poll cycles of the monitor script
MaxTicks == 3
\* largest PagesPrinted the OS reports
MaxPages == 1
\* jobs in one OS queue snapshot of the monitor-only specification
MaxQueue == 2

\* JavaScript null for the opaque string values
Null == "null"
\* windowsJobId: null (job ids of the spooler are positive)
NoJobId == 0

(***************************************************************************)
(* Strings.                                                                *)
(***************************************************************************)
Digit(d) == CASE d = 0 -> "0" [] d = 1 -> "1" [] d = 2 -> "2" [] d = 3 -> "3"
              [] d = 4 -> "4" [] d = 5 -> "5" [] d = 6 -> "6" [] d = 7 -> "7"
              [] d = 8 -> "8" [] d = 9 -> "9"

RECURSIVE String(_)
\* String(n) for a non-negative integer: its decimal digits
String(n) == IF n < 10 THEN <<Digit(n)>> ELSE String(n \div 10) \o <<Digit(n % 10)>>

\* s.includes(t): t occurs in s as a contiguous substring
Includes(s, t) ==
    \E i \in 0..(Len(s) - Len(t)) : \A j \in 1..Len(t) : s[i + j] = t[j]

(***************************************************************************)
(* The Map activePrintJobs: entries in insertion order.  An entry is the   *)
(* key and the fields of the value object.  reg is not a field of the      *)
(* code's object: it names the upload whose registration the object was    *)
(* created for or copied from (object spread copies it with the rest).     *)
(***************************************************************************)
MapHas(m, k) == \E i \in 1..Len(m) : m[i].key = k

MapIndex(m, k) == CHOOSE i \in 1..Len(m) : m[i].key = k

\* Map.prototype.get: the value under k (caller checks MapHas first)
MapGet(m, k) == m[MapIndex(m, k)]

\* Map.prototype.set: an existing key keeps its position, a new key is appended
MapSet(m, k, v) ==
    LET e == [v EXCEPT !.key = k]
    IN  IF MapHas(m, k) THEN [m EXCEPT ![MapIndex(m, k)] = e] ELSE Append(m, e)

\* Map.prototype.delete
MapDelete(m, k) == SelectSeq(m, LAMBDA e : e.key # k)

(***************************************************************************)
(* State.                                                                  *)
(***************************************************************************)
VARIABLES
    activePrintJobs,  \* the Map of line 399
    webhooks,         \* the axios.post calls made by sendWebhook, in order
    disk,             \* names of the files in the uploads directory
    req,              \* the POST /print request being handled, or NoReq
    idx,              \* position of the per-file loop in req.files
    pc,               \* where the handler is suspended: idle, convert, print
                      \* (hung: in a conversion whose tool never exits)
    processPath,      \* the handler's local of that name (its basename)
    results,          \* the handler's local results array
    responses,        \* the HTTP responses sent so far, in order
    uploadSeq,        \* uploads stored by multer so far
    previousState,    \* $previousState of the polling script
    tick,             \* poll cycles run so far
    lastSnapshot,     \* the OS queue as read by the latest poll cycle
    pipe,             \* script output not yet handed to the 'data' handler
    buffer,           \* PrintMonitor.buffer
    delivered,        \* per spool id, the events handed to the listeners
    settled,          \* how many of the posts in webhooks have settled
    proc,             \* the monitor's child process: starting, monitoring,
                      \* or crashed (the server process has ended)
    split             \* one file of POST /print of lines 222-339

vars == <<activePrintJobs, webhooks, disk, req, idx, pc, processPath, results,
          responses, uploadSeq, previousState, tick, lastSnapshot, pipe, buffer,
          delivered, settled, proc, split>>

\* what neither the handler of lines 688-761 nor the monitor writes
otherVars == <<settled, proc, split>>

serverVars == <<req, idx, pc, processPath, results, responses, uploadSeq>>

JobIds == 1..MaxJobId

NoReq == [jobDetailId |-> Null, webhookUrl |-> Null, files |-> <<>>]

(***************************************************************************)
(* sendWebhook (lines 538-548).  A call with a url makes one axios.post;   *)
(* a call without a url returns at once.  The outcome of the post is only   *)
(* logged.  reg names the registration the call was made for.              *)
(***************************************************************************)
sendWebhook(hooks, url, payload, reg) ==
    IF url = Null THEN hooks
    ELSE Append(hooks, [url |-> url, payload |-> payload, reg |-> reg])

(***************************************************************************)
(* monitor.on("add") (lines 488-507).  The loop runs over every entry of   *)
(* the Map, in insertion order, and tests the entry's key.                 *)
(***************************************************************************)
\* index of the first entry whose key is a substring of the document, or 0
FirstMatch(m, document) ==
    LET hits == {i \in 1..Len(m) : Includes(document, m[i].key)}
    IN  IF hits = {} THEN 0 ELSE CHOOSE i \in hits : \A j \in hits : i <= j

OnAdd(s, job) ==
    LET i == FirstMatch(s.jobs, job.document)
    IN  IF i = 0 THEN s
        ELSE LET filename == s.jobs[i].key
                 data == [s.jobs[i] EXCEPT !.windowsJobId = job.id]
                 marked == [s.jobs EXCEPT ![i] = data]
             IN  [s EXCEPT
                    !.jobs = MapSet(marked, String(job.id),
                                    [data EXCEPT !.filename = filename]),
                    !.hooks = sendWebhook(s.hooks, data.webhookUrl,
                                [job_detail_id |-> data.jobDetailId,
                                 status |-> "running",
                                 message |-> <<"Spooling on", job.printer>>],
                                data.reg)]

(***************************************************************************)
(* monitor.on("remove") (lines 509-536).  fs.unlink is started by the      *)
(* handler; the file is taken as gone when the handler returns.            *)
(***************************************************************************)
\* a handler that falls back on the document name when the id is unknown
OnRemoveByDocument(s, job) ==
    LET lookupKey == String(job.id)
        i == IF MapHas(s.jobs, lookupKey) THEN MapIndex(s.jobs, lookupKey)
             ELSE FirstMatch(s.jobs, job.document)
    IN  IF i = 0 THEN s
        ELSE LET data == s.jobs[i]
             IN  [s EXCEPT
                    !.hooks = sendWebhook(s.hooks, data.webhookUrl,
                                [job_detail_id |-> data.jobDetailId,
                                 status |-> "completed",
                                 message |-> <<"Print job finished successfully">>,
                                 pages_printed |-> job.pagesPrinted],
                                data.reg),
                    !.jobs = MapDelete(MapDelete(s.jobs, data.key), data.filename),
                    !.disk = s.disk \ {data.filename}]

OnRemove(s, job) ==
    LET lookupKey == String(job.id)
    IN  IF MapHas(s.jobs, lookupKey)
        THEN LET data == MapGet(s.jobs, lookupKey)
             IN  [s EXCEPT
                    !.hooks = sendWebhook(s.hooks, data.webhookUrl,
                                [job_detail_id |-> data.jobDetailId,
                                 status |-> "completed",
                                 message |-> <<"Print job finished successfully">>,
                                 pages_printed |-> job.pagesPrinted],
                                data.reg),
                    !.jobs = MapDelete(MapDelete(s.jobs, lookupKey), data.filename),
                    !.disk = s.disk \ {data.filename}]
        ELSE s

(***************************************************************************)
(* The polling script (lines 412-457).  previousState is a function from   *)
(* the job ids it holds to their $jobData.  One poll cycle reads the jobs  *)
(* of the OS queue (a sequence of Win32_PrintJob objects), writes one line *)
(* per event and returns the new $previousState.                           *)
(***************************************************************************)
\* $jobData of lines 427-433
JobData(job) ==
    [id |-> job.JobId, document |-> job.Document, printer |-> job.Name,
     pagesPrinted |-> job.PagesPrinted,
     status |-> IF job.JobStatus # "" THEN job.JobStatus ELSE "Spooling"]

\* the hashtable with the key `event` added (lines 436-437, 447-449)
WithEvent(data, event, status) ==
    [id |-> data.id, document |-> data.document, printer |-> data.printer,
     pagesPrinted |-> data.pagesPrinted, status |-> status, event |-> event]

\* ConvertTo-Json $h -Compress: the text of one object.  A name (event,
\* status, printer) is one character of the text, a number is its decimal
\* digits, the document name is its characters between quotes.  Document
\* names hold no comma and no quote.
ConvertToJson(h) ==
    <<"{", h.event, ",">> \o String(h.id) \o <<",", "\"">> \o h.document
    \o <<"\"", ",">> \o String(h.pagesPrinted) \o <<",", h.status, ",", h.printer, "}">>

\* Write-Output: the text and the line terminator of the console
WriteOutput(h) == ConvertToJson(h) \o <<"\r", "\n">>

HashSet(h, k, v) == [x \in (DOMAIN h) \cup {k} |-> IF x = k THEN v ELSE h[x]]

HashRemove(h, k) == [x \in (DOMAIN h) \ {k} |-> h[x]]

RECURSIVE ScanJobs(_, _, _)
\* foreach ($job in $jobs) of lines 424-441: prev is $previousState, out the
\* lines written so far
ScanJobs(jobs, prev, out) ==
    IF jobs = <<>> THEN [prev |-> prev, out |-> out]
    ELSE LET jobData == JobData(Head(jobs))
             id == jobData.id
             out2 == IF id \notin DOMAIN prev
                     THEN out \o WriteOutput(WithEvent(jobData, "add", jobData.status))
                     ELSE out
         IN  ScanJobs(Tail(jobs), HashSet(prev, id, jobData), out2)

RECURSIVE SweepKeysKeep(_, _, _, _)
\* a sweep that forgets $previousState.Remove($key)
SweepKeysKeep(prevKeys, currentIds, prev, out) ==
    IF prevKeys = <<>> THEN [prev |-> prev, out |-> out]
    ELSE LET key == Head(prevKeys)
         IN  IF key \notin currentIds
             THEN SweepKeysKeep(Tail(prevKeys), currentIds, prev,
                            out \o <<"{", "remove", ",">> \o String(prev[key].id)
                                \o <<",", "\"">> \o prev[key].document \o <<"\"", ",">>
                                \o String(prev[key].pagesPrinted)
                                \o <<",", "Completed", ",", prev[key].printer, "}",
                                     "\r", "\n">>)
             ELSE SweepKeysKeep(Tail(prevKeys), currentIds, prev, out)

RECURSIVE SweepKeys(_, _, _, _)
\* foreach ($key in $prevKeys) of lines 444-453
SweepKeys(prevKeys, currentIds, prev, out) ==
    IF prevKeys = <<>> THEN [prev |-> prev, out |-> out]
    ELSE LET key == Head(prevKeys)
         IN  IF key \notin currentIds
             THEN SweepKeys(Tail(prevKeys), currentIds, HashRemove(prev, key),
                            out \o WriteOutput(WithEvent(prev[key], "remove", "Completed")))
             ELSE SweepKeys(Tail(prevKeys), currentIds, prev, out)

\* one pass of the while loop; prevKeys is the order in which the hashtable
\* enumerates its keys
PollCycle(prev, jobs, prevKeys) ==
    LET currentIds == {jobs[i].JobId : i \in 1..Len(jobs)}
        scanned == ScanJobs(jobs, prev, <<>>)
    IN  SweepKeys(prevKeys, currentIds, scanned.prev, scanned.out)

(***************************************************************************)
(* The stdout 'data' handler (lines 467-481).                              *)
(***************************************************************************)
\* the smallest member of a non-empty set of positions
First(S) == CHOOSE i \in S : \A j \in S : i <= j

RECURSIVE Split(_)
\* str.split(/\r?\n/)
Split(str) ==
    LET ends == {i \in 1..Len(str) : str[i] = "\n"}
    IN  IF ends = {} THEN <<str>>
        ELSE LET p == First(ends)
                 q == IF p > 1 /\ str[p - 1] = "\r" THEN p - 2 ELSE p - 1
             IN  <<SubSeq(str, 1, q)>> \o Split(SubSeq(str, p + 1, Len(str)))

Whitespace == {" ", "\t", "\r", "\n"}

RECURSIVE TrimStart(_)
TrimStart(line) ==
    IF line # <<>> /\ line[1] \in Whitespace THEN TrimStart(Tail(line)) ELSE line

RECURSIVE TrimEnd(_)
TrimEnd(line) ==
    IF line # <<>> /\ line[Len(line)] \in Whitespace
    THEN TrimEnd(SubSeq(line, 1, Len(line) - 1))
    ELSE line

\* line.trim()
Trim(line) == TrimEnd(TrimStart(line))

Digits == {Digit(d) : d \in 0..9}

DigitValue(c) == CHOOSE d \in 0..9 : Digit(d) = c

RECURSIVE ParseNumber(_)
ParseNumber(text) ==
    IF Len(text) = 1 THEN DigitValue(text[1])
    ELSE 10 * ParseNumber(SubSeq(text, 1, Len(text) - 1)) + DigitValue(text[Len(text)])

IsNumber(text) == Len(text) >= 1 /\ \A i \in 1..Len(text) : text[i] \in Digits

IsQuoted(text) == Len(text) >= 2 /\ text[1] = "\"" /\ text[Len(text)] = "\""

RECURSIVE Fields(_)
\* the members of an object's text, without the braces
Fields(text) ==
    LET commas == {i \in 1..Len(text) : text[i] = ","}
    IN  IF commas = {} THEN <<text>>
        ELSE LET p == First(commas)
             IN  <<SubSeq(text, 1, p - 1)>> \o Fields(SubSeq(text, p + 1, Len(text)))

\* JSON.parse returns for the complete text of one object and throws for
\* anything else (a part of a line, two lines run together)
ParseOk(line) ==
    LET text == Trim(line)
    IN  /\ Len(text) >= 2 /\ text[1] = "{" /\ text[Len(text)] = "}"
        /\ LET f == Fields(SubSeq(text, 2, Len(text) - 1))
           IN  /\ Len(f) = 6
               /\ Len(f[1]) = 1 /\ IsNumber(f[2]) /\ IsQuoted(f[3])
               /\ IsNumber(f[4]) /\ Len(f[5]) = 1 /\ Len(f[6]) = 1

JSONparse(line) ==
    LET text == Trim(line)
        f == Fields(SubSeq(text, 2, Len(text) - 1))
    IN  [event |-> f[1][1], id |-> ParseNumber(f[2]),
         document |-> SubSeq(f[3], 2, Len(f[3]) - 1),
         pagesPrinted |-> ParseNumber(f[4]), status |-> f[5][1], printer |-> f[6][1]]

\* this.emit(job.event, job): run the listener registered for the event
Emit(s, job) ==
    LET noted == [s EXCEPT !.delivered[job.id] = Append(@, job.event)]
    IN  IF job.event = "add" THEN OnAdd(noted, job)
        ELSE IF job.event = "remove" THEN OnRemove(noted, job)
        ELSE s

RECURSIVE EmitLines(_, _)
\* for (const line of lines) of lines 472-480
EmitLines(s, lines) ==
    IF lines = <<>> THEN s
    ELSE LET line == Head(lines)
         IN  IF Trim(line) = <<>> \/ ~ParseOk(line)
             THEN EmitLines(s, Tail(lines))
             ELSE EmitLines(Emit(s, JSONparse(line)), Tail(lines))

\* a handler that clears the buffer instead of keeping the unfinished line
RemainderDropped(lines) == <<>>

\* what lines.pop() leaves in this.buffer
Remainder(lines) == lines[Len(lines)]

OnData(s, buf, data) ==
    LET lines == Split(buf \o data)
    IN  [s |-> EmitLines(s, SubSeq(lines, 1, Len(lines) - 1)),
         buffer |-> Remainder(lines)]

(***************************************************************************)
(* parsePageRange (lines 73-91) and one file of POST /print of lines       *)
(* 222-339: the mono/color split, the print calls and the finally block.   *)
(***************************************************************************)
RECURSIVE SplitOn(_, _)
\* str.split(sep) for a one-character separator
SplitOn(str, sep) ==
    LET at == {i \in 1..Len(str) : str[i] = sep}
    IN  IF at = {} THEN <<str>>
        ELSE LET p == First(at)
             IN  <<SubSeq(str, 1, p - 1)>>
                     \o SplitOn(SubSeq(str, p + 1, Len(str)), sep)

RECURSIVE DigitPrefix(_)
\* the digits a text starts with
DigitPrefix(text) ==
    IF text # <<>> /\ text[1] \in Digits
    THEN <<text[1]>> \o DigitPrefix(Tail(text))
    ELSE <<>>

\* parseInt(text, 10): leading white space is skipped, a sign is read, then
\* the digits up to the first other character; NaN if there is no digit
parseInt(text) ==
    LET t == TrimStart(text)
        signed == t # <<>> /\ t[1] \in {"+", "-"}
        body == DigitPrefix(IF signed THEN Tail(t) ELSE t)
    IN  IF body = <<>> THEN [nan |-> TRUE, value |-> 0]
        ELSE [nan |-> FALSE,
              value |-> IF signed /\ t[1] = "-" THEN 0 - ParseNumber(body)
                        ELSE ParseNumber(body)]

\* the pages one part of the range adds (the body of the for loop)
PartPages(part, maxPages) ==
    IF Includes(part, <<"-">>)
    THEN LET nums == SplitOn(part, "-")
             start == parseInt(Trim(nums[1]))
             end == parseInt(Trim(nums[2]))
         IN  IF ~start.nan /\ ~end.nan
             THEN {i \in start.value..end.value : i <= maxPages}
             ELSE {}
    ELSE LET p == parseInt(Trim(part))
         IN  IF ~p.nan /\ p.value <= maxPages THEN {p.value} ELSE {}

parsePageRange(rangeStr, maxPages) ==
    IF rangeStr = <<>> THEN {}
    ELSE LET parts == SplitOn(rangeStr, ",")
         IN  UNION {PartPages(parts[k], maxPages) : k \in 1..Len(parts)}

RECURSIVE Sort(_)
\* Array.from(set).sort((a, b) => a - b)
Sort(set) ==
    IF set = {} THEN <<>>
    ELSE LET least == First(set) IN <<least>> \o Sort(set \ {least})

RECURSIVE Join(_)
\* array.join(",") of an array of numbers
Join(array) ==
    IF array = <<>> THEN <<>>
    ELSE IF Len(array) = 1 THEN String(array[1])
    ELSE String(array[1]) \o <<",">> \o Join(Tail(array))

toPageString(set) == Join(Sort(set))

\* lines 256-261
ColorSet(monoSet, totalPages) == {i \in 1..totalPages : i \notin monoSet}

\* a dispatcher that submits both halves whether they are empty or not
SplitJobsBoth(baseOptions, monoSet, colorSet) ==
    <<[base |-> baseOptions, monochrome |-> "true", pages |-> toPageString(monoSet)],
      [base |-> baseOptions, monochrome |-> "false", pages |-> toPageString(colorSet)]>>

\* lines 267-287: the options of the print calls pushed to jobs
SplitJobs(baseOptions, monoSet, colorSet) ==
    (IF monoSet # {}
     THEN <<[base |-> baseOptions, monochrome |-> "true",
             pages |-> toPageString(monoSet)]>>
     ELSE <<>>)
    \o (IF colorSet # {}
        THEN <<[base |-> baseOptions, monochrome |-> "false",
                pages |-> toPageString(colorSet)]>>
        ELSE <<>>)

\* lines 296-300: the options of the one print call made without a
\* monorange; pages and monochrome are set only if the request has them
StandardJobs(baseOptions, pages, monochrome) ==
    <<[base |-> baseOptions,
       monochrome |-> IF monochrome THEN "true" ELSE "absent",
       pages |-> pages]>>

\* results.push or errors.push, then the finally block: processPath is
\* unlinked
Finish(f, outcome) ==
    [f EXCEPT !.stage = "done", !.outcome = outcome, !.onDisk = FALSE]

\* the try block from line 251 to its await of the print calls: the sets,
\* the print calls made, all of them in flight
Dispatch(f) ==
    IF f.monorange # <<>>
    THEN LET monoSet == parsePageRange(f.monorange, f.totalPages)
             colorSet == ColorSet(monoSet, f.totalPages)
             jobs == SplitJobs(f.baseOptions, monoSet, colorSet)
             called == [f EXCEPT !.stage = "await", !.monoSet = monoSet,
                                 !.colorSet = colorSet, !.jobs = jobs,
                                 !.inflight = 1..Len(jobs)]
         IN  IF jobs = <<>> THEN Finish(called, "result") ELSE called
    ELSE LET jobs == StandardJobs(f.baseOptions, f.pages, f.monochrome)
         IN  [f EXCEPT !.stage = "await", !.jobs = jobs, !.inflight = 1..Len(jobs)]

\* the await of lines 289 and 300: Promise.all resolves once every print
\* call has resolved and rejects as soon as one of them rejects
Settle(f, i, ok) ==
    LET left == [f EXCEPT !.inflight = @ \ {i}]
    IN  IF f.stage # "await" THEN left
        ELSE IF ~ok THEN Finish(left, "error")
        ELSE IF left.inflight = {} THEN Finish(left, "result")
        ELSE left

(***************************************************************************)
(* ensurePdf (lines 630-647) and the per-file loop of POST /print          *)
(* (lines 688-761).  A file object is [n, ext, filename]: n counts the     *)
(* uploads (it names the registration made for the file), ext is           *)
(* path.extname(originalname).toLowerCase(), filename is the name multer   *)
(* stored the upload under.  Paths are given by their basename.            *)
(***************************************************************************)
\* the name multer gives upload n (a random hex string in the code)
Filename(n) == <<"f">> \o String(n)

Exts == {".pdf", ".docx"}

\* fileObj.path + ext
CorrectExtPath(file) == file.filename \o <<file.ext>>

\* fileObj.path + ".converted.pdf"
OutputPdfPath(file) == file.filename \o <<".converted.pdf">>

\* a registration keyed by the upload's name instead of the basename of
\* the normalized document
RegisterUploadName(h, rq, file, path) ==
    LET registered ==
            IF rq.jobDetailId # Null /\ rq.webhookUrl # Null
            THEN MapSet(h.jobs, file.filename,
                        [key |-> file.filename, jobDetailId |-> rq.jobDetailId,
                         webhookUrl |-> rq.webhookUrl, windowsJobId |-> NoJobId,
                         filename |-> file.filename, reg |-> file.n])
            ELSE h.jobs
    IN  [h EXCEPT !.jobs = registered, !.pc = "print", !.processPath = path]

\* lines 724-738: register the watch, then call print
RegisterAndPrint(h, rq, file, path) ==
    LET actualFilename == path
        registered ==
            IF rq.jobDetailId # Null /\ rq.webhookUrl # Null
            THEN MapSet(h.jobs, actualFilename,
                        [key |-> actualFilename, jobDetailId |-> rq.jobDetailId,
                         webhookUrl |-> rq.webhookUrl, windowsJobId |-> NoJobId,
                         filename |-> actualFilename, reg |-> file.n])
            ELSE h.jobs
    IN  [h EXCEPT !.jobs = registered, !.pc = "print", !.processPath = path]

\* an ensurePdf that gives a .pdf upload its extension like any other
ensurePdfRenaming(d, file) ==
    [returned |-> file.ext = ".pdf", path |-> CorrectExtPath(file),
     disk |-> (d \ {file.filename}) \cup {CorrectExtPath(file)}]

\* ensurePdf (lines 630-634) up to its return or its first await, on the
\* directory d: a .pdf returns fileObj.path at once and touches no file,
\* any other extension is renamed and awaits its conversion
ensurePdf(d, file) ==
    IF file.ext = ".pdf"
    THEN [returned |-> TRUE, path |-> file.filename, disk |-> d]
    ELSE [returned |-> FALSE, path |-> CorrectExtPath(file),
          disk |-> (d \ {file.filename}) \cup {CorrectExtPath(file)}]

\* the loop from the head of iteration i to its first wait (ensurePdf of a
\* .pdf returns at once, any other extension is renamed and converted), or
\* the response of line 757 after the last file
BeginFile(h, rq, i) ==
    IF i > Len(rq.files)
    THEN [h EXCEPT !.pc = "idle", !.idx = 0, !.processPath = <<>>,
                   !.responses = Append(@, [status |-> 200, success |-> TRUE,
                                            results |-> h.results])]
    ELSE LET file == rq.files[i]
             at == [h EXCEPT !.idx = i, !.processPath = <<>>]
             called == ensurePdf(h.disk, file)
         IN  IF called.returned
             THEN RegisterAndPrint([at EXCEPT !.disk = called.disk], rq, file,
                                   called.path)
             ELSE [at EXCEPT !.pc = "convert", !.disk = called.disk]

\* the catch block of lines 745-754, then the next iteration
Catch(h, rq, message) ==
    LET hooks == IF rq.webhookUrl # Null /\ rq.jobDetailId # Null
                 THEN sendWebhook(h.hooks, rq.webhookUrl,
                                  [job_detail_id |-> rq.jobDetailId,
                                   status |-> "failed", message |-> <<message>>],
                                  rq.files[h.idx].n)
                 ELSE h.hooks
    IN  BeginFile([h EXCEPT !.hooks = hooks], rq, h.idx + 1)

\* lines 740-744, then the next iteration
Printed(h, rq) ==
    LET file == rq.files[h.idx]
    IN  BeginFile([h EXCEPT !.results = Append(@, [file |-> file.n,
                                                   status |-> "sent to spooler",
                                                   internal_name |-> h.processPath])],
                  rq, h.idx + 1)

\* ensurePdf after the conversion succeeded (lines 637-639, 642-644)
Converted(h, rq) ==
    LET file == rq.files[h.idx]
        cleaned == [h EXCEPT !.disk = (@ \ {CorrectExtPath(file)})
                                        \cup {OutputPdfPath(file)}]
    IN  RegisterAndPrint(cleaned, rq, file, OutputPdfPath(file))

(***************************************************************************)
(* Actions.                                                                *)
(***************************************************************************)
Handler == [jobs |-> activePrintJobs, hooks |-> webhooks, disk |-> disk,
            delivered |-> delivered, idx |-> idx, pc |-> pc,
            processPath |-> processPath, results |-> results,
            responses |-> responses]

SetHandler(h) ==
    /\ activePrintJobs' = h.jobs
    /\ webhooks' = h.hooks
    /\ disk' = h.disk
    /\ delivered' = h.delivered
    /\ idx' = h.idx
    /\ pc' = h.pc
    /\ processPath' = h.processPath
    /\ results' = h.results
    /\ responses' = h.responses

monitorVars == <<previousState, tick, lastSnapshot, pipe, buffer>>

\* a file of the handler of lines 222-339 before any request was made
NoSplit ==
    [stage |-> "none", monorange |-> <<>>, pages |-> <<>>, monochrome |-> FALSE,
     baseOptions |-> [printer |-> Null], totalPages |-> 0, monoSet |-> {},
     colorSet |-> {}, jobs |-> <<>>, inflight |-> {}, outcome |-> "none",
     onDisk |-> FALSE]

\* the server after construction, the monitor's child process aside
ServerInit ==
    /\ activePrintJobs = <<>>
    /\ webhooks = <<>>
    /\ disk = {}
    /\ req = NoReq
    /\ idx = 0
    /\ pc = "idle"
    /\ processPath = <<>>
    /\ results = <<>>
    /\ responses = <<>>
    /\ uploadSeq = 0
    /\ previousState = [x \in {} |-> x]
    /\ tick = 0
    /\ lastSnapshot = <<>>
    /\ pipe = <<>>
    /\ buffer = <<>>
    /\ delivered = [id \in JobIds |-> <<>>]
    /\ settled = 0

\* the server with the polling script running
Init ==
    /\ ServerInit
    /\ proc = "monitoring"
    /\ split = NoSplit

\* what a caller may send as job_detail_id after k earlier uploads
JobDetailIds(k) == {Null, IF k = 0 THEN "A" ELSE "B"}

WebhookUrls == {Null, "http://cb"}

\* app.post("/print"): multer has stored the files, the handler runs to its
\* first wait
PostPrint(jobDetailId, webhookUrl, exts) ==
    /\ pc = "idle"
    /\ Len(responses) < MaxRequests
    /\ Len(exts) >= 1
    /\ uploadSeq + Len(exts) <= MaxUploads
    /\ LET files == [k \in 1..Len(exts) |->
                        [n |-> uploadSeq + k, ext |-> exts[k],
                         filename |-> Filename(uploadSeq + k)]]
           rq == [jobDetailId |-> jobDetailId, webhookUrl |-> webhookUrl,
                  files |-> files]
           stored == [Handler EXCEPT
                        !.disk = @ \cup {files[k].filename : k \in 1..Len(files)},
                        !.results = <<>>]
       IN  /\ uploadSeq' = uploadSeq + Len(exts)
           /\ \E h \in {BeginFile(stored, rq, 1)} : SetHandler(h)
           /\ req' = IF pc' = "idle" THEN NoReq ELSE rq
    /\ UNCHANGED monitorVars
    /\ UNCHANGED otherVars

\* extensions a caller may upload: the supported ones and one that
\* ALLOWED_EXTS does not hold
UploadExts == Exts \cup {".exe"}

\* fileFilter (lines 557-561): the upload is accepted
fileFilter(ext) == ext \in Exts

\* upload.array("files") when fileFilter passes an error for one of the
\* files: multer removes the files it has stored for the request and hands
\* the error to Express, whose error handler answers 500; the handler of
\* line 688 is never called.  uploaded is not part of the response: it
\* names the extensions of the request answered.
PostPrintRejected(exts) ==
    /\ pc = "idle"
    /\ Len(responses) < MaxRequests
    /\ Len(exts) >= 1
    /\ uploadSeq + Len(exts) <= MaxUploads
    /\ \E k \in 1..Len(exts) : ~fileFilter(exts[k])
    /\ responses' = Append(responses, [status |-> 500, success |-> FALSE,
                                       results |-> <<>>, uploaded |-> exts])
    /\ UNCHANGED <<activePrintJobs, webhooks, disk, delivered>>
    /\ UNCHANGED <<req, idx, pc, processPath, results, uploadSeq>>
    /\ UNCHANGED monitorVars
    /\ UNCHANGED otherVars

ConvertOk ==
    /\ pc = "convert"
    /\ \E h \in {Converted(Handler, req)} : SetHandler(h)
    /\ req' = IF pc' = "idle" THEN NoReq ELSE req
    /\ UNCHANGED uploadSeq
    /\ UNCHANGED monitorVars
    /\ UNCHANGED otherVars

ConvertFail(message) ==
    /\ pc = "convert"
    /\ \E h \in {Catch(Handler, req, message)} : SetHandler(h)
    /\ req' = IF pc' = "idle" THEN NoReq ELSE req
    /\ UNCHANGED uploadSeq
    /\ UNCHANGED monitorVars
    /\ UNCHANGED otherVars

PrintOk ==
    /\ pc = "print"
    /\ \E h \in {Printed(Handler, req)} : SetHandler(h)
    /\ req' = IF pc' = "idle" THEN NoReq ELSE req
    /\ UNCHANGED uploadSeq
    /\ UNCHANGED monitorVars
    /\ UNCHANGED otherVars

PrintFail(message) ==
    /\ pc = "print"
    /\ \E h \in {Catch(Handler, req, message)} : SetHandler(h)
    /\ req' = IF pc' = "idle" THEN NoReq ELSE req
    /\ UNCHANGED uploadSeq
    /\ UNCHANGED monitorVars
    /\ UNCHANGED otherVars

(***************************************************************************)
(* The monitor.  Poll runs one cycle of the script on the queue the OS     *)
(* shows at that moment; Data hands the first n characters of the script's *)
(* output to the 'data' handler, which runs the listeners.                 *)
(***************************************************************************)
\* characters of output that may still be unread when a poll cycle starts
MaxBacklog == 0

Server == [jobs |-> activePrintJobs, hooks |-> webhooks, disk |-> disk,
           delivered |-> delivered]

RECURSIVE Orders(_)
\* the orders in which a hashtable may enumerate the keys S
Orders(S) ==
    IF S = {} THEN {<<>>}
    ELSE UNION {{<<k>> \o o : o \in Orders(S \ {k})} : k \in S}

Poll(jobs) ==
    /\ tick < MaxTicks
    /\ Len(pipe) <= MaxBacklog
    /\ \E prevKeys \in Orders(DOMAIN ScanJobs(jobs, previousState, <<>>).prev) :
          \E r \in {PollCycle(previousState, jobs, prevKeys)} :
              /\ previousState' = r.prev
              /\ pipe' = pipe \o r.out
    /\ tick' = tick + 1
    /\ lastSnapshot' = jobs
    /\ UNCHANGED <<activePrintJobs, webhooks, disk, delivered, buffer>>
    /\ UNCHANGED serverVars
    /\ UNCHANGED otherVars

Data(n) ==
    /\ n \in 1..Len(pipe)
    /\ \E r \in {OnData(Server, buffer, SubSeq(pipe, 1, n))} :
           /\ activePrintJobs' = r.s.jobs
           /\ webhooks' = r.s.hooks
           /\ disk' = r.s.disk
           /\ delivered' = r.s.delivered
           /\ buffer' = r.buffer
    /\ pipe' = SubSeq(pipe, n + 1, Len(pipe))
    /\ UNCHANGED <<previousState, tick, lastSnapshot>>
    /\ UNCHANGED serverVars
    /\ UNCHANGED otherVars

(***************************************************************************)
(* What the OS queue may show.                                             *)
(***************************************************************************)
\* the document name of a spool job printing upload n
DocumentOf(n) == <<"/">> \o Filename(n) \o <<".converted.pdf">>

Documents == {DocumentOf(n) : n \in 1..MaxUploads}

\* JobStatus and PagesPrinted of a job as it waits and as it prints
Progress == {[JobStatus |-> "", PagesPrinted |-> 0],
             [JobStatus |-> "Printing", PagesPrinted |-> MaxPages]}

Win32PrintJobs ==
    {[JobId |-> id, Document |-> d, Name |-> "P",
      PagesPrinted |-> g.PagesPrinted, JobStatus |-> g.JobStatus] :
        id \in JobIds, d \in Documents, g \in Progress}

\* queues of printing jobs, one job per id, in the order of the ids
RECURSIVE QueuesFrom(_)
QueuesFrom(id) ==
    IF id > MaxJobId THEN {<<>>}
    ELSE LET rest == QueuesFrom(id + 1)
         IN  rest \cup {<<j>> \o q :
                          j \in {w \in Win32PrintJobs :
                                   w.JobId = id /\ w.JobStatus = "Printing"},
                          q \in rest}

Queues == QueuesFrom(1)

\* every queue of at most MaxQueue jobs of one document, waiting or
\* printing, ids repeated or not, in any order
AnyQueues ==
    UNION {[1..k -> {w \in Win32PrintJobs : w.Document = DocumentOf(1)}] :
             k \in 0..MaxQueue}

\* the positions of pipe that end a line
LineEnds == {n \in 1..Len(pipe) : pipe[n] = "\n"}

Next ==
    \/ \E j \in JobDetailIds(uploadSeq), u \in WebhookUrls,
          exts \in UNION {[1..k -> Exts] : k \in 1..MaxUploads} : PostPrint(j, u, exts)
    \/ \E exts \in UNION {[1..k -> UploadExts] : k \in 1..MaxUploads} :
          PostPrintRejected(exts)
    \/ ConvertOk
    \/ \E m \in {"LibreOffice failed", "LibreOffice output not found."} : ConvertFail(m)
    \/ PrintOk
    \/ \E m \in {"print failed"} : PrintFail(m)
    \/ \E q \in Queues : Poll(q)
    \/ \E n \in LineEnds : Data(n)

Spec == Init /\ [][Next]_vars

(***************************************************************************)
(* The monitor alone: no request is made, the queue is any queue and the   *)
(* output reaches the 'data' handler in chunks of any size.                *)
(***************************************************************************)
MonitorNext ==
    \/ \E q \in AnyQueues : Poll(q)
    \/ \E n \in 1..Len(pipe) : Data(n)

MonitorSpec == Init /\ [][MonitorNext]_vars

(***************************************************************************)
(* One file of POST /print of lines 222-339: the request is any monorange  *)
(* of at most MaxRangeLen characters on a document of at most              *)
(* MaxTotalPages pages; every print call resolves or rejects.              *)
(***************************************************************************)
\* characters of the monorange parameter
MaxRangeLen == 3
\* pages of the normalized document
MaxTotalPages == 3

RangeChars == {"0", "1", "2", ",", "-", " ", "x"}

RangeStrs == UNION {[1..k -> RangeChars] : k \in 0..MaxRangeLen}

\* baseOptions as lines 232-240 build it from the parameters
BaseOptions ==
    {[printer |-> "P", paperSize |-> "A4", copies |-> 1, scale |-> "fit",
      side |-> "simplex", orientation |-> "portrait"],
     [printer |-> "Q", paperSize |-> "A5", copies |-> 2, scale |-> "noscale",
      side |-> "duplex", orientation |-> "landscape"]}

\* a file whose ensurePdf has returned; pages and monochrome are the
\* request's parameters of these names (pages absent: the empty string)
SplitRequests ==
    {[stage |-> "request", monorange |-> r, pages |-> p, monochrome |-> m,
      baseOptions |-> b, totalPages |-> n, monoSet |-> {}, colorSet |-> {},
      jobs |-> <<>>, inflight |-> {}, outcome |-> "none", onDisk |-> TRUE] :
        r \in RangeStrs, p \in {<<>>, <<"2">>}, m \in BOOLEAN,
        b \in BaseOptions, n \in 0..MaxTotalPages}

SplitInit ==
    /\ ServerInit
    /\ proc = "monitoring"
    /\ split \in SplitRequests

notSplit == <<activePrintJobs, webhooks, disk, delivered, settled, proc>>

DispatchFile ==
    /\ split.stage = "request"
    /\ split' = Dispatch(split)
    /\ UNCHANGED <<notSplit, serverVars, monitorVars>>

\* print call i resolves (ok) or rejects
PrintSettles(i, ok) ==
    /\ i \in split.inflight
    /\ split' = Settle(split, i, ok)
    /\ UNCHANGED <<notSplit, serverVars, monitorVars>>

SplitNext ==
    \/ DispatchFile
    \/ \E i \in 1..2, ok \in BOOLEAN : PrintSettles(i, ok)

SplitSpec == SplitInit /\ [][SplitNext]_vars

(***************************************************************************)
(* The server with the outcome of every axios.post: a post made by         *)
(* sendWebhook settles at some later time, with a response or an error.    *)
(***************************************************************************)
\* posts whose outcome is followed
MaxSettled == 1

\* a sendWebhook that posts again when the post failed
RetryFailedPost(hooks, i, ok) == IF ok THEN hooks ELSE Append(hooks, hooks[i])

\* sendWebhook after its await (lines 541-546): the posts made are the
\* same whether post i was answered (ok) or failed, the outcome is logged
AfterPost(hooks, i, ok) == hooks

\* the oldest post still outstanding is answered (ok) or fails
WebhookSettles(ok) ==
    /\ settled < Len(webhooks)
    /\ settled < MaxSettled
    /\ webhooks' = AfterPost(webhooks, settled + 1, ok)
    /\ settled' = settled + 1
    /\ UNCHANGED <<activePrintJobs, disk, delivered, proc, split>>
    /\ UNCHANGED serverVars
    /\ UNCHANGED monitorVars

HookNext ==
    \/ Next
    \/ \E ok \in BOOLEAN : WebhookSettles(ok)

HookSpec == Init /\ [][HookNext]_vars

(***************************************************************************)
(* The monitor from monitor.start() (lines 409-486): spawn has been        *)
(* called and the child process either starts or fails to start.           *)
(***************************************************************************)
\* the events of the child process and of its streams for which start()
\* registers a listener (line 467 is the only registration)
ChildListeners == {"stdout.data"}

\* the child process emits 'error' (the executable cannot be started): an
\* EventEmitter with no listener for 'error' throws the error, and an
\* uncaught exception ends the server process
OnSpawnError == IF "error" \in ChildListeners THEN "unmonitored" ELSE "crashed"

BootInit ==
    /\ ServerInit
    /\ proc = "starting"
    /\ split = NoSplit

notProc == <<activePrintJobs, webhooks, disk, delivered, settled, split>>

\* powershell.exe has started and reads the script
SpawnOk ==
    /\ proc = "starting"
    /\ proc' = "monitoring"
    /\ UNCHANGED <<notProc, serverVars, monitorVars>>

\* powershell.exe could not be started
SpawnFails ==
    /\ proc = "starting"
    /\ proc' = OnSpawnError
    /\ UNCHANGED <<notProc, serverVars, monitorVars>>

BootNext ==
    \/ SpawnOk
    \/ SpawnFails
    \/ (proc = "monitoring" /\ MonitorNext)

BootSpec == BootInit /\ [][BootNext]_vars

(***************************************************************************)
(* The request handler alone, with a conversion tool that may never exit.  *)
(* exec is called without a timeout (line 587), so its callback runs when  *)
(* the tool exits and not before.  A tool that has not hung exits, and a   *)
(* print call settles.                                                     *)
(***************************************************************************)
\* soffice stops making progress and never exits
ToolHangs ==
    /\ pc = "convert"
    /\ pc' = "hung"
    /\ UNCHANGED <<activePrintJobs, webhooks, disk, delivered>>
    /\ UNCHANGED <<req, idx, processPath, results, responses, uploadSeq>>
    /\ UNCHANGED monitorVars
    /\ UNCHANGED otherVars

ToolExits ==
    \/ ConvertOk
    \/ \E m \in {"LibreOffice failed", "LibreOffice output not found."} : ConvertFail(m)
    \/ ToolHangs

PrintExits ==
    \/ PrintOk
    \/ \E m \in {"print failed"} : PrintFail(m)

ConvertNext ==
    \/ \E j \in JobDetailIds(uploadSeq), u \in WebhookUrls,
          exts \in UNION {[1..k -> Exts] : k \in 1..MaxUploads} : PostPrint(j, u, exts)
    \/ ToolExits
    \/ PrintExits

ConvertSpec ==
    Init /\ [][ConvertNext]_vars /\ WF_vars(ToolExits) /\ WF_vars(PrintExits)

(***************************************************************************)
(* Properties.                                                             *)
(***************************************************************************)
Uploads == 1..MaxUploads

\* the status of every webhook sent for the registration of upload n, in order
StatusesFor(n) ==
    LET mine == SelectSeq(webhooks, LAMBDA w : w.reg = n)
    IN  [i \in 1..Len(mine) |-> mine[i].payload.status]

Count(seq, x) == Cardinality({i \in 1..Len(seq) : seq[i] = x})

\* the entries of the Map that belong to the registration of upload n
EntriesOf(n) == {i \in 1..Len(activePrintJobs) : activePrintJobs[i].reg = n}

SpoolKeys == {String(id) : id \in JobIds}

\* C1: the webhooks sent for a registration follow Pending -> Running ->
\* {Completed, Failed}, or Pending -> Failed: at most one running, at most
\* one terminal webhook, completed only after running, nothing after a
\* terminal webhook.
C1_Lifecycle ==
    \A n \in Uploads :
        StatusesFor(n) \in {<<>>, <<"running">>, <<"failed">>,
                            <<"running", "completed">>, <<"running", "failed">>}

\* C2: once a completed or failed webhook has been issued for a file, the
\* Map holds no entry of that file's registration, under any key.
C2_TerminalRemoves ==
    \A n \in Uploads :
        (Count(StatusesFor(n), "completed") + Count(StatusesFor(n), "failed") > 0)
            => EntriesOf(n) = {}

\* C3: a spool id belongs to at most one registration; a registration with
\* a windowsJobId is in the Map under its filename and under
\* String(windowsJobId); every entry under a spool-id key names a filename
\* whose own entry is still in the Map; a completed registration leaves no
\* entry behind.
C3_IndexInvariant ==
    LET m == activePrintJobs
        E == 1..Len(m)
    IN  /\ \A i, j \in E :
              (m[i].windowsJobId # NoJobId /\ m[i].windowsJobId = m[j].windowsJobId)
                  => m[i].reg = m[j].reg
        /\ \A i \in E :
              (m[i].windowsJobId # NoJobId /\ m[i].key \notin SpoolKeys)
                  => MapHas(m, String(m[i].windowsJobId))
        /\ \A i \in E :
              m[i].key \in SpoolKeys
                  => /\ m[i].filename \notin SpoolKeys
                     /\ MapHas(m, m[i].filename)
        /\ \A n \in Uploads :
              Count(StatusesFor(n), "completed") > 0 => EntriesOf(n) = {}

\* C4: whatever 'add' events arrive, a registration triggers no more than
\* the one running webhook (the least that "exactly one" asks for).
C4_OneRunning ==
    \A n \in Uploads : Count(StatusesFor(n), "running") <= 1

\* C5: whatever 'add' and 'remove' events arrive, a registration triggers
\* no more than the one completed webhook (the least that "exactly one"
\* asks for).
C5_OneCompleted ==
    \A n \in Uploads : Count(StatusesFor(n), "completed") <= 1

\* C10: a file whose first webhook is failed (it failed before a spool id
\* was seen for it) gets that one failed webhook and never a running or a
\* completed one.
C10_DirectFailure ==
    \A n \in Uploads :
        (Len(StatusesFor(n)) > 0 /\ StatusesFor(n)[1] = "failed")
            => StatusesFor(n) = <<"failed">>

\* the step delivers one event, a 'remove' for id, and nothing else
OnlyRemoveDelivered(id) ==
    delivered' = [delivered EXCEPT ![id] = Append(@, "remove")]

\* C6: a 'remove' event whose spool id is not a key of the Map changes
\* neither the Map nor the files, and sends no webhook.
C6_OrphanRemove ==
    [][\A id \in JobIds :
          (OnlyRemoveDelivered(id) /\ ~MapHas(activePrintJobs, String(id)))
              => UNCHANGED <<activePrintJobs, webhooks, disk>>]_vars

\* an unmatched removal was handled while a registration was waiting
C6_Witness ==
    /\ \E id \in JobIds : delivered[id] = <<"add", "remove">>
    /\ activePrintJobs # <<>>
    /\ disk # {}
    /\ webhooks = <<>>

\* the ids in a queue snapshot
IdsOf(jobs) == {jobs[i].JobId : i \in 1..Len(jobs)}

\* the data last read for id in a snapshot that holds it
LastSeen(jobs, id) ==
    JobData(jobs[CHOOSE i \in 1..Len(jobs) :
                    /\ jobs[i].JobId = id
                    /\ \A j \in (i + 1)..Len(jobs) : jobs[j].JobId # id])

\* the events written to the pipe by the step
Written ==
    LET lines == Split(SubSeq(pipe', Len(pipe) + 1, Len(pipe')))
    IN  [i \in 1..(Len(lines) - 1) |-> JSONparse(lines[i])]

\* C7: a poll cycle writes one 'add' for each id that is in the snapshot it
\* reads and was not in the one before, one 'remove' for each id that was
\* in the one before and is not in this one, and nothing else; a 'remove'
\* carries the data last read for the job, with status Completed.
C7_SnapshotDiff ==
    [][tick' = tick + 1 =>
          LET w == Written
              old == IdsOf(lastSnapshot)
              new == IdsOf(lastSnapshot')
              n(e, id) == Cardinality({i \in 1..Len(w) :
                                         w[i].event = e /\ w[i].id = id})
          IN  /\ \A i \in 1..Len(w) : w[i].event \in {"add", "remove"}
              /\ \A id \in JobIds :
                    /\ n("add", id) = IF id \in new \ old THEN 1 ELSE 0
                    /\ n("remove", id) = IF id \in old \ new THEN 1 ELSE 0
              /\ \A i \in 1..Len(w) :
                    w[i].event = "remove" =>
                        w[i] = WithEvent(LastSeen(lastSnapshot, w[i].id),
                                         "remove", "Completed")]_vars

\* the third cycle has written an 'add' and a 'remove', the 'remove' for a
\* job that an earlier cycle had added
C7_Witness ==
    /\ tick >= 3
    /\ \E i, j \in 1..Len(pipe) : pipe[i] = "add" /\ pipe[j] = "remove"
    /\ \E id \in JobIds \ IdsOf(lastSnapshot) : delivered[id] = <<"add">>

\* C8: for every spool id the events handed to the listeners alternate,
\* starting with 'add'.
C8_Alternation ==
    \A id \in JobIds :
        \A i \in 1..Len(delivered[id]) :
            delivered[id][i] = IF i % 2 = 1 THEN "add" ELSE "remove"

\* an id was added, removed and added again while an unfinished line
\* waited in the buffer
C8_Witness ==
    /\ \E id \in JobIds : delivered[id] = <<"add", "remove", "add">>
    /\ buffer # <<>>

\* the basename of the normalized document of a file
NormalizedName(file) ==
    IF file.ext = ".pdf" THEN file.filename
    ELSE file.filename \o <<".converted.pdf">>

\* the step calls print for a file
PrintCalled == pc' = "print" /\ (pc # "print" \/ idx' # idx)

\* the Map holds the registration of the file being printed
Registered ==
    LET name == NormalizedName(req.files[idx])
    IN  /\ MapHas(activePrintJobs, name)
        /\ MapGet(activePrintJobs, name).jobDetailId = req.jobDetailId
        /\ MapGet(activePrintJobs, name).webhookUrl = req.webhookUrl
        /\ MapGet(activePrintJobs, name).filename = name

SplitDone == split.stage \in {"await", "done"} /\ split.monorange # <<>>

\* C11: whatever the range string and maxPages, every page parsePageRange
\* returns lies in 1..maxPages.
C11_WithinRange ==
    SplitDone => split.monoSet \subseteq 1..split.totalPages

\* C12: the mono set and the color set of the split path partition
\* 1..N: they are disjoint, their union is 1..N, and neither holds an
\* element outside 1..N.
C12_Partition ==
    SplitDone =>
        /\ split.monoSet \cap split.colorSet = {}
        /\ split.monoSet \cup split.colorSet = 1..split.totalPages

\* the numbers a comma-separated list names, in its order
Listed(pages) ==
    LET parts == SplitOn(pages, ",")
    IN  [k \in 1..Len(parts) |-> IF IsNumber(parts[k]) THEN ParseNumber(parts[k])
                                 ELSE 0 - 1]

\* pages lists exactly the members of set, each once, in ascending order
ListsAscending(pages, set) ==
    LET listed == Listed(pages)
    IN  /\ {listed[k] : k \in 1..Len(listed)} = set
        /\ \A k \in 1..(Len(listed) - 1) : listed[k] < listed[k + 1]

JobsWith(flag) == {k \in 1..Len(split.jobs) : split.jobs[k].monochrome = flag}

\* C13: with a monorange, one print call is made for each non-empty set
\* (the mono set with monochrome true, the color set with monochrome
\* false) and none for an empty set, each lists its own pages in ascending
\* order, and all carry the request's base options; without a monorange
\* exactly one print call is made for the file.
C13_Dispatch ==
    split.stage \in {"await", "done"} =>
        /\ \A k \in 1..Len(split.jobs) : split.jobs[k].base = split.baseOptions
        /\ split.monorange = <<>> => Len(split.jobs) = 1
        /\ split.monorange # <<>> =>
             /\ Len(split.jobs) = Cardinality(JobsWith("true"))
                                      + Cardinality(JobsWith("false"))
             /\ Cardinality(JobsWith("true")) = IF split.monoSet # {} THEN 1 ELSE 0
             /\ Cardinality(JobsWith("false")) = IF split.colorSet # {} THEN 1 ELSE 0
             /\ \A k \in JobsWith("true") :
                    ListsAscending(split.jobs[k].pages, split.monoSet)
             /\ \A k \in JobsWith("false") :
                    ListsAscending(split.jobs[k].pages, split.colorSet)
             /\ split.totalPages >= 1 => Len(split.jobs) \in {1, 2}

\* C13 witness: the monorange "2,1" on a document of three pages has been
\* dispatched as two print calls.
C13_Witness ==
    /\ split.stage = "await"
    /\ split.monorange = <<"2", ",", "1">>
    /\ split.totalPages = 3
    /\ Len(split.jobs) = 2

(***************************************************************************)
(* Properties of the responses of POST /print.                             *)
(***************************************************************************)
\* the success entries for upload n in the responses sent so far
SuccessEntries(n) ==
    {<<r, k>> \in (1..Len(responses)) \X (1..MaxUploads) :
        /\ responses[r].success
        /\ k <= Len(responses[r].results)
        /\ responses[r].results[k].file = n}

\* C14: once a request is answered, every file it uploaded appears exactly
\* once in the response, as a success entry or as an error entry (the
\* response of line 757 has no error entries, so: as a success entry).
C14_EveryFileReported ==
    pc = "idle" => \A n \in 1..uploadSeq : Cardinality(SuccessEntries(n)) = 1

\* the request answered by response r held two files, one of them with an
\* extension the server does not support
MixedBatch(r) ==
    /\ ~responses[r].success
    /\ Len(responses[r].uploaded) = 2
    /\ Cardinality({k \in 1..2 : fileFilter(responses[r].uploaded[k])}) = 1

\* C15: a batch of two files, one of them with an unsupported extension,
\* is answered with one success entry for the supported file (and an
\* error entry for the other, under a partial status).
C15_MixedBatch ==
    \A r \in 1..Len(responses) :
        MixedBatch(r) => Len(responses[r].results) = 1 /\ responses[r].status = 207

(***************************************************************************)
(* Properties of webhook delivery.                                         *)
(***************************************************************************)
\* the events handed to the listeners so far
EventCount(d) ==
    LET RECURSIVE Sum(_)
        Sum(ids) == IF ids = {} THEN 0
                    ELSE LET id == First(ids) IN Len(d[id]) + Sum(ids \ {id})
    IN  Sum(JobIds)

\* a step of the request handler
HandlerStep == serverVars' # serverVars

\* C16: a step in which a post settles, answered or failed, makes no
\* further post and changes neither the Map nor the handler or its
\* responses; a step makes at most one post for each event it hands to the
\* listeners and at most one for a failure in the handler; no post is made
\* without a url, and a handler step of a request without a webhook url
\* makes none; a 'remove' handled while posts are outstanding still deletes
\* the spool-id entry and the entry of its filename.
C16_FireAndForget ==
    [][/\ settled' # settled =>
            UNCHANGED <<webhooks, activePrintJobs, disk, serverVars>>
       /\ Len(webhooks') - Len(webhooks)
              <= EventCount(delivered') - EventCount(delivered)
                     + (IF HandlerStep THEN 1 ELSE 0)
       /\ \A i \in 1..Len(webhooks') : webhooks'[i].url # Null
       /\ (HandlerStep /\ req.webhookUrl = Null) => webhooks' = webhooks
       /\ \A id \in JobIds :
            (/\ OnlyRemoveDelivered(id)
             /\ MapHas(activePrintJobs, String(id))
             /\ settled < Len(webhooks))
                => /\ ~MapHas(activePrintJobs', String(id))
                   /\ ~MapHas(activePrintJobs',
                              MapGet(activePrintJobs, String(id)).filename)
      ]_vars

\* C16 witness: a request was answered, one post has settled, and the
\* 'remove' of a matched job was handled while another post was outstanding
C16_Witness ==
    /\ responses # <<>>
    /\ settled >= 1
    /\ settled < Len(webhooks)
    /\ \E i \in 1..Len(webhooks) : webhooks[i].payload.status = "completed"

(***************************************************************************)
(* Properties of the monitor's start and of conversion.                    *)
(***************************************************************************)
\* C17: no fault of the monitor, a failure to start the polling
\* subprocess included, ends the server process.
C17_NeverCrashes == proc # "crashed"

\* C18: the renamed intermediate file of an upload (upload path + true
\* extension) exists only while ensurePdf is converting that upload.
C18_IntermediateDeleted ==
    \A n \in Uploads, e \in Exts \ {".pdf"} :
        (Filename(n) \o <<e>>) \in disk
            => pc = "convert" /\ req.files[idx].n = n

\* C19: every conversion call settles, with success or with an error,
\* also when the tool never exits.
C19_ConversionSettles == (pc = "convert") ~> (pc \notin {"convert", "hung"})

\* C20: the normalized document is not unlinked while a print call made
\* for it is still in flight.
C20_SettledBeforeUnlink == split.inflight # {} => split.onDisk

\* a terminal webhook (failed or completed) was sent for upload n
Terminal(n) ==
    \E i \in 1..Len(StatusesFor(n)) : StatusesFor(n)[i] \in {"failed", "completed"}

\* C20 (second half): no normalized document is on disk once its job has
\* reached a terminal state.
C20_NoLeftover ==
    \A n \in Uploads :
        Terminal(n) => /\ Filename(n) \notin disk
                       /\ (Filename(n) \o <<".converted.pdf">>) \notin disk

(***************************************************************************)
(* Properties of ensurePdf for a .pdf upload and of the 'add' match.       *)
(***************************************************************************)
\* C21: when the handler reaches print for a .pdf upload, ensurePdf has
\* returned the upload's own path and has renamed, created and deleted no
\* file (the only new files are the uploads multer stored in that step),
\* and a further call of ensurePdf for the file returns the same path and
\* leaves the directory as it is.
C21_PdfIdempotent ==
    [][(PrintCalled /\ req'.files[idx'].ext = ".pdf") =>
          LET file == req'.files[idx']
              stored == IF req = NoReq
                        THEN {req'.files[k].filename : k \in 1..Len(req'.files)}
                        ELSE {}
              again == ensurePdf(disk', file)
          IN  /\ processPath' = file.filename
              /\ disk' = disk \cup stored
              /\ file.filename \in disk'
              /\ again.returned
              /\ again.path = processPath'
              /\ again.disk = disk'
              /\ ensurePdf(again.disk, file) = again]_vars

\* C21 witness: print is running for a .pdf that is the second file of its
\* request, under the name multer stored it
C21_Witness ==
    /\ pc = "print"
    /\ idx = 2
    /\ req.files[idx].ext = ".pdf"
    /\ processPath = req.files[idx].filename
    /\ processPath \in disk

\* the step delivers one event, an 'add' for id, and nothing else
OnlyAddDelivered(id) ==
    delivered' = [delivered EXCEPT ![id] = Append(@, "add")]

\* C22: an 'add' that matches (it sends the running webhook) has selected
\* a filename-keyed registration, so the entry it writes under the spool id
\* names a filename that is not a spool-id key, and no entry that was in
\* the Map before has its filename changed.
C22_FilenameKeyedMatch ==
    [][\A id \in JobIds :
          (OnlyAddDelivered(id) /\ webhooks' # webhooks) =>
              /\ MapGet(activePrintJobs', String(id)).filename \notin SpoolKeys
              /\ \A i \in 1..Len(activePrintJobs) :
                    LET key == activePrintJobs[i].key
                    IN  MapHas(activePrintJobs', key)
                            => MapGet(activePrintJobs', key).filename
                                   = activePrintJobs[i].filename]_vars

====
